---------------------------- MODULE Spec2Model ----------------------------
(***************************************************************************)
(* Model of the dismantling engine (src/server/dismantling_engine.py):     *)
(* replay of a removal sequence against a working copy of a graph and the  *)
(* metrics derived from the replay.                                        *)
(*                                                                         *)
(* A graph object is a record                                              *)
(*     [order |-> sequence of node ids in insertion order, no repeats,     *)
(*      edges |-> set of edges, an edge being the set of its end points]   *)
(* Graph objects live in a heap (a sequence of graph values); a variable   *)
(* of the program holding a graph holds a reference, i.e. an index of the  *)
(* heap, so that copying and aliasing are distinguishable.                 *)
(*                                                                         *)
(* Python floats are modelled as exact fractions <<numerator,denominator>>.*)
(***************************************************************************)
EXTENDS Integers, Sequences, FiniteSets, TLC

\* Bounds of the model.
MaxNodes == 3
MaxLen == 3
\* Bounds of the inputs of the whole-call specification SpecCalls.
CallMaxNodes == 2
CallMaxLen == 2
\* Bounds of the specification SpecLoad of the model cache: the threads that
\* call get_model and the GraphDQN instances constructed in a run.
MaxCallers == 2
MaxConstructed == 3
\* Bounds of the graphs of the specification SpecCanon of canonicalization.
CanonMaxNodes == 3
CanonMaxEdges == 2

VARIABLES
    heap,                 \* the graph objects, by reference
    graph,                \* reference of the caller's graph (the argument)
    solution,             \* the removal sequence passed in
    pc,                   \* position in _calculate_metrics
    i,                    \* number of entries of solution already iterated
    g,                    \* reference of the working graph (0: not yet bound)
    original_largest_cc,
    removal_sequence,     \* the StepRecords emitted so far
    largest_cc_sizes,
    result,               \* the value returned (NoResult before return)
    error,                \* the exception raised ("none" if none)
    loaded_models,        \* ModelManager.loaded_models: name -> instance
    callers,              \* the threads calling get_model: position, name, instance
    constructed,          \* the names of the GraphDQN instances constructed so
                          \* far; an instance is its index in this sequence
    deadline              \* whether the caller's deadline for the replay has passed

managerVars == << loaded_models, callers, constructed >>

engineVars == << heap, graph, solution, pc, i, g, original_largest_cc,
                 removal_sequence, largest_cc_sizes, result, error >>

vars == << heap, graph, solution, pc, i, g, original_largest_cc,
           removal_sequence, largest_cc_sizes, result, error,
           loaded_models, callers, constructed, deadline >>

\* ModelManager.__init__, line 74: nothing is loaded; no thread is in
\* get_model.
ManagerInit ==
    /\ loaded_models = << >>
    /\ callers = [ t \in 1..MaxCallers |-> [ pc |-> "idle", model_name |-> "None", dqn |-> 0 ] ]
    /\ constructed = << >>

-----------------------------------------------------------------------------
\* Generic helpers.

Range(s) == { s[k] : k \in DOMAIN s }

Max(S) == CHOOSE x \in S : \A y \in S : y <= x

RECURSIVE SumSeq(_)
SumSeq(s) == IF s = << >> THEN 0 ELSE s[1] + SumSeq(Tail(s))

SeqsUpTo(S, n) == UNION { [1..k -> S] : k \in 0..n }

\* Exact fractions standing for Python floats.
Frac(n, d) == << n, d >>
FracEq(a, b) == a[1] * b[2] = b[1] * a[2]
FracLE(a, b) == a[1] * b[2] <= b[1] * a[2]      \* denominators are positive

-----------------------------------------------------------------------------
\* networkx.Graph operations used by the engine.

Nodes(gv) == Range(gv.order)

number_of_nodes(gv) == Len(gv.order)

number_of_edges(gv) == Cardinality(gv.edges)

\* A remove_node that forgets the incident edges.
remove_node_KeepEdges(gv, v) ==
    [ order |-> SelectSeq(gv.order, LAMBDA u : u # v),
      edges |-> gv.edges ]

\* Graph.remove_node: the node and every edge incident to it go.
remove_node(gv, v) ==
    [ order |-> SelectSeq(gv.order, LAMBDA u : u # v),
      edges |-> { e \in gv.edges : v \notin e } ]

Neighbors(gv, v) == { u \in Nodes(gv) : {u, v} \in gv.edges }

RECURSIVE Reach(_, _)
Reach(gv, S) ==
    LET T == S \cup UNION { Neighbors(gv, v) : v \in S }
    IN  IF T = S THEN S ELSE Reach(gv, T)

\* nx.connected_components: the node sets of the components (full traversal).
connected_components(gv) == { Reach(gv, {v}) : v \in Nodes(gv) }

\* len(max(nx.connected_components(g), key=len)); max() of an empty iterable
\* raises ValueError, so this is only defined for a graph with nodes.
LargestCCLen(gv) == Max({ Cardinality(c) : c \in connected_components(gv) })

\* A copy that hands back the object it was asked to copy.
GraphCopy_Alias(h, r) == [ heap |-> h, ref |-> r ]

\* Graph.copy(): a new object with the same content is allocated; the heap
\* with the new object and the reference of the new object.
GraphCopy(h, r) == [ heap |-> Append(h, h[r]), ref |-> Len(h) + 1 ]

-----------------------------------------------------------------------------
\* DismantlingEngine._calculate_metrics

NoResult == [ returned |-> FALSE ]

\* Lines 142-145: the largest component after a removal, 0 for no nodes.
LargestCCAfter(gv) ==
    IF number_of_nodes(gv) > 0 THEN LargestCCLen(gv) ELSE 0

\* A step index that counts the records emitted so far.
StepIndex_Emitted(idx, emitted) == emitted + 1

\* Line 148: the step index of the record for the entry at 0-based index idx
\* of solution.
StepIndex(idx, emitted) == idx + 1

\* Line 153.
CCRatio(largest_cc, orig) ==
    IF orig > 0 THEN Frac(largest_cc, orig) ELSE Frac(0, 1)

\* Lines 147-154: the StepRecord built after node was removed, gv being the
\* working graph after the removal.
StepRecord(idx, emitted, node, gv, orig) ==
    [ step            |-> StepIndex(idx, emitted),
      node_removed    |-> node,
      remaining_nodes |-> number_of_nodes(gv),
      remaining_edges |-> number_of_edges(gv),
      largest_cc_size |-> LargestCCAfter(gv),
      largest_cc_ratio |-> CCRatio(LargestCCAfter(gv), orig) ]

\* A membership test that lets every entry through.
InGraph_Always(node, gv) == TRUE

\* Line 139: "if node in g".
InGraph(node, gv) == node \in Nodes(gv)

\* A rectangle rule in place of the trapezoidal rule.
Trapz_Rectangle(sizes) == Frac(2 * SumSeq(sizes), 2)

\* Line 162, np.trapz with unit spacing: sum of (c[k] + c[k+1]) / 2.
Trapz(sizes) ==
    Frac(SumSeq([ k \in 1..(Len(sizes) - 1) |-> sizes[k] + sizes[k + 1] ]), 2)

\* A robustness that scores an empty trace 0.
Robustness_EmptyZero(sizes, orig) ==
    IF sizes # << >>
    THEN Frac(Trapz(sizes)[1], Trapz(sizes)[2] * (Len(sizes) * orig))
    ELSE Frac(0, 1)

\* Line 162.
Robustness(sizes, orig) ==
    IF sizes # << >>
    THEN Frac(Trapz(sizes)[1], Trapz(sizes)[2] * (Len(sizes) * orig))
    ELSE Frac(1, 1)

\* A final size that reads 0 from an empty trace.
FinalLargestCC_EmptyZero(sizes, orig) ==
    IF sizes # << >> THEN sizes[Len(sizes)] ELSE 0

\* Line 159.
FinalLargestCC(sizes, orig) ==
    IF sizes # << >> THEN sizes[Len(sizes)] ELSE orig

\* Line 165.
NodesRemoved(sol, records) == Len(sol)

\* Lines 164-172: the returned dictionary.
Metrics(gv0, sol, records, sizes, orig) ==
    [ returned             |-> TRUE,
      nodes_removed        |-> NodesRemoved(sol, records),
      removal_ratio        |-> Frac(NodesRemoved(sol, records), number_of_nodes(gv0)),
      final_largest_cc     |-> FinalLargestCC(sizes, orig),
      largest_cc_reduction |-> Frac(orig - FinalLargestCC(sizes, orig), orig),
      robustness           |-> Robustness(sizes, orig),
      removal_sequence     |-> records,
      largest_cc_evolution |-> sizes ]

\* The loop of lines 138-156 run from entry idx to the end of sol: the working
\* graph and the records at loop exit.
RECURSIVE ReplayFrom(_, _, _, _, _)
ReplayFrom(gv, sol, idx, records, orig) ==
    IF idx = Len(sol)
    THEN [ g |-> gv, removal_sequence |-> records ]
    ELSE IF InGraph(sol[idx + 1], gv)
         THEN LET gn == remove_node(gv, sol[idx + 1])
              IN  ReplayFrom(gn, sol, idx + 1,
                             Append(records,
                                    StepRecord(idx, Len(records), sol[idx + 1], gn, orig)),
                             orig)
         ELSE ReplayFrom(gv, sol, idx + 1, records, orig)

SizesOf(records) == [ k \in 1..Len(records) |-> records[k].largest_cc_size ]

\* _calculate_metrics as a whole, called with the object r of heap h: the
\* heap it leaves and what it raises or returns.
calculate_metrics(h, r, sol) ==
    LET Returned(c, orig, run, h2) ==                          \* lines 158-172
            [ heap   |-> h2,
              error  |-> "none",
              result |-> Metrics(h2[r], sol, run.removal_sequence,
                                 SizesOf(run.removal_sequence), orig) ]
        Replayed(c, orig, run) ==                              \* lines 138-156
            Returned(c, orig, run, [ c.heap EXCEPT ![c.ref] = run.g ])
        Measured(c, orig) ==
            Replayed(c, orig, ReplayFrom(c.heap[c.ref], sol, 0, << >>, orig))
        Copied(c) ==                                           \* line 136
            IF number_of_nodes(c.heap[c.ref]) = 0
            THEN [ heap |-> c.heap, error |-> "ValueError", result |-> NoResult ]
            ELSE Measured(c, LargestCCLen(c.heap[c.ref]))
    IN  Copied(GraphCopy(h, r))                                \* line 130

\* Lines 130-136: the working copy and the original largest component.
\* max() of no components (a graph without nodes) raises ValueError.
CalcBegin ==
    /\ pc = "begin"
    /\ heap' = GraphCopy(heap, graph).heap
    /\ g' = GraphCopy(heap, graph).ref
    /\ IF number_of_nodes(heap'[g']) = 0
       THEN /\ pc' = "raised"
            /\ error' = "ValueError"
            /\ UNCHANGED original_largest_cc
       ELSE /\ pc' = "loop"
            /\ original_largest_cc' = LargestCCLen(heap'[g'])
            /\ UNCHANGED error
    /\ UNCHANGED << graph, solution, i, removal_sequence, largest_cc_sizes, result >>
    /\ UNCHANGED << managerVars, deadline >>

\* Lines 138-156, an entry that is in the working graph.
CalcRemove ==
    /\ pc = "loop"
    /\ i < Len(solution)
    /\ InGraph(solution[i + 1], heap[g])
    /\ LET node == solution[i + 1]
           gv   == remove_node(heap[g], node)
           rec  == StepRecord(i, Len(removal_sequence), node, gv, original_largest_cc)
       IN  /\ heap' = [ heap EXCEPT ![g] = gv ]
           /\ removal_sequence' = Append(removal_sequence, rec)
           /\ largest_cc_sizes' = Append(largest_cc_sizes, rec.largest_cc_size)
    /\ i' = i + 1
    /\ UNCHANGED << graph, solution, pc, g, original_largest_cc, result, error >>
    /\ UNCHANGED << managerVars, deadline >>

\* Lines 138-139, an entry that is not in the working graph.
CalcSkip ==
    /\ pc = "loop"
    /\ i < Len(solution)
    /\ ~ InGraph(solution[i + 1], heap[g])
    /\ i' = i + 1
    /\ UNCHANGED << heap, graph, solution, pc, g, original_largest_cc,
                    removal_sequence, largest_cc_sizes, result, error >>
    /\ UNCHANGED << managerVars, deadline >>

\* Lines 158-172. The divisions of lines 166 and 168 are Python divisions:
\* ZeroDivisionError for a zero divisor.
CalcReturn ==
    /\ pc = "loop"
    /\ i = Len(solution)
    /\ IF number_of_nodes(heap[graph]) = 0 \/ original_largest_cc = 0
       THEN /\ pc' = "raised"
            /\ error' = "ZeroDivisionError"
            /\ UNCHANGED result
       ELSE /\ pc' = "done"
            /\ result' = Metrics(heap[graph], solution, removal_sequence,
                                 largest_cc_sizes, original_largest_cc)
            /\ UNCHANGED error
    /\ UNCHANGED << heap, graph, solution, i, g, original_largest_cc,
                    removal_sequence, largest_cc_sizes >>
    /\ UNCHANGED << managerVars, deadline >>

-----------------------------------------------------------------------------
\* Inputs.

\* The graph of test_graph_processing (src/test_system.py lines 69-73).
TestGraph ==
    [ order |-> << 0, 1, 2, 3 >>,
      edges |-> { {0, 1}, {1, 2}, {2, 3}, {3, 0}, {1, 3} } ]

\* Simple graphs on the nodes 0..n-1, n <= max.
SimpleGraphs(max) ==
    UNION { { [ order |-> [ k \in 1..n |-> k - 1 ], edges |-> E ] :
                E \in SUBSET { e \in SUBSET (0..(n - 1)) : Cardinality(e) = 2 } } :
            n \in 0..max }

InputGraphs == SimpleGraphs(MaxNodes) \cup { TestGraph }

\* Ids a removal sequence may name: MaxNodes is never a node of a graph of
\* SimpleGraphs.
InputIds == 0..MaxNodes

\* evaluate_solution(graph, solution), lines 174-177: _calculate_metrics is
\* entered with the caller's graph.
Init ==
    /\ heap \in { << gv >> : gv \in InputGraphs }
    /\ graph = 1
    /\ solution \in SeqsUpTo(InputIds, MaxLen)
    /\ pc = "begin"
    /\ i = 0
    /\ g = 0
    /\ original_largest_cc = 0
    /\ removal_sequence = << >>
    /\ largest_cc_sizes = << >>
    /\ result = NoResult
    /\ error = "none"
    /\ ManagerInit
    /\ deadline = FALSE

Next == CalcBegin \/ CalcRemove \/ CalcSkip \/ CalcReturn

Spec == Init /\ [][Next]_vars

-----------------------------------------------------------------------------
\* Baseline generators and visualisation data, each as a whole call on an
\* object r of heap h.

Min(S) == CHOOSE x \in S : \A y \in S : x <= y

\* Graph.degree: the edges at v, a self-loop counting twice.
Degree(gv, v) ==
    Cardinality({ e \in gv.edges : v \in e }) + (IF {v} \in gv.edges THEN 1 ELSE 0)

\* max(d, key=d.get) over a dict keyed by the nodes in iteration order: the
\* first key, in that order, whose value no other value exceeds. Values are
\* fractions.
FirstMax(order, val) ==
    LET scored == { << k, val[order[k]] >> : k \in DOMAIN order }
        best   == { p \in scored : \A q \in scored : FracLE(q[2], p[2]) }
    IN  order[Min({ p[1] : p \in best })]

\* HighDegreeLoop going on while a node is left, not while an edge is left.
RECURSIVE HighDegreeLoop_UntilEmpty(_, _)
HighDegreeLoop_UntilEmpty(gv, sol) ==
    IF number_of_nodes(gv) > 0
    THEN LET v == FirstMax(gv.order, [ u \in Nodes(gv) |-> Frac(Degree(gv, u), 1) ])
         IN  HighDegreeLoop_UntilEmpty(remove_node(gv, v), Append(sol, v))
    ELSE [ g |-> gv, solution |-> sol ]

\* Lines 216-224: the loop of _high_degree_attack on the working graph.
RECURSIVE HighDegreeLoop(_, _)
HighDegreeLoop(gv, sol) ==
    IF number_of_edges(gv) > 0 /\ number_of_nodes(gv) > 0
    THEN LET v == FirstMax(gv.order, [ u \in Nodes(gv) |-> Frac(Degree(gv, u), 1) ])
         IN  HighDegreeLoop(remove_node(gv, v), Append(sol, v))
    ELSE [ g |-> gv, solution |-> sol ]

\* _high_degree_attack, lines 211-226.
high_degree_attack(h, r) ==
    LET Looped(c, run) ==
            [ heap |-> [ c.heap EXCEPT ![c.ref] = run.g ], solution |-> run.solution ]
        Copied(c) == Looped(c, HighDegreeLoop(c.heap[c.ref], << >>))
    IN  Copied(GraphCopy(h, r))

\* The simple paths of gv from s to t, as sequences of nodes.
PathsBetween(gv, s, t) ==
    { p \in UNION { [1..k -> Nodes(gv)] : k \in 1..number_of_nodes(gv) } :
        /\ p[1] = s
        /\ p[Len(p)] = t
        /\ \A a, b \in DOMAIN p : a # b => p[a] # p[b]
        /\ \A a \in 1..(Len(p) - 1) : {p[a], p[a + 1]} \in gv.edges }

ShortestPaths(gv, s, t) ==
    LET paths == PathsBetween(gv, s, t)
    IN  { p \in paths : \A q \in paths : Len(p) <= Len(q) }

\* The sum and the product of the values f[x], x in S, of a function f.
RECURSIVE SumOver(_, _)
SumOver(S, f) ==
    IF S = {} THEN 0
    ELSE LET x == CHOOSE y \in S : TRUE IN f[x] + SumOver(S \ {x}, f)

RECURSIVE ProductOver(_, _)
ProductOver(S, f) ==
    IF S = {} THEN 1
    ELSE LET x == CHOOSE y \in S : TRUE IN f[x] * ProductOver(S \ {x}, f)

\* nx.betweenness_centrality(g)[v] (unweighted, normalized, no endpoints):
\* the sum over the ordered pairs (s, t) of other nodes joined by a path of
\* the share of their shortest paths that pass through v, divided by
\* (n - 1)(n - 2) when n > 2. The sum is taken exactly, over the common
\* denominator of the shares.
Betweenness(gv, v) ==
    LET others == Nodes(gv) \ {v}
        joined == { [ st |-> st, paths |-> ShortestPaths(gv, st[1], st[2]) ] :
                      st \in { x \in others \X others : x[1] # x[2] } }
        pairs == { x \in joined : x.paths # {} }
        sigma == [ x \in pairs |-> Cardinality(x.paths) ]
        through == [ x \in pairs |->
                       Cardinality({ p \in x.paths : v \in Range(p) }) ]
        all   == ProductOver(pairs, sigma)
        n     == number_of_nodes(gv)
    IN  Frac(SumOver(pairs, [ x \in pairs |-> through[x] * (all \div sigma[x]) ]),
             all * (IF n > 2 THEN (n - 1) * (n - 2) ELSE 1))

\* Lines 233-241: the loop of _high_betweenness_attack on the working graph.
RECURSIVE HighBetweennessLoop(_, _)
HighBetweennessLoop(gv, sol) ==
    IF number_of_edges(gv) > 0 /\ number_of_nodes(gv) > 0
    THEN LET v == FirstMax(gv.order, [ u \in Nodes(gv) |-> Betweenness(gv, u) ])
         IN  HighBetweennessLoop(remove_node(gv, v), Append(sol, v))
    ELSE [ g |-> gv, solution |-> sol ]

\* _high_betweenness_attack, lines 228-243.
high_betweenness_attack(h, r) ==
    LET Looped(c, run) ==
            [ heap |-> [ c.heap EXCEPT ![c.ref] = run.g ], solution |-> run.solution ]
        Copied(c) == Looped(c, HighBetweennessLoop(c.heap[c.ref], << >>))
    IN  Copied(GraphCopy(h, r))

\* The orders np.random.shuffle can leave a list in: its permutations.
Shuffles(order) ==
    { p \in [DOMAIN order -> Range(order)] : Range(p) = Range(order) }

\* A slice lst[:n] for n >= 0.
Truncate(lst, n) == SubSeq(lst, 1, IF n < Len(lst) THEN n ELSE Len(lst))

\* _random_attack, lines 399-403, for the outcome shuffled of the shuffle of
\* list(graph.nodes()); the graph object is only read.
random_attack(h, r, num_nodes, shuffled) ==
    [ heap |-> h, solution |-> Truncate(shuffled, num_nodes) ]

\* nx.number_connected_components.
number_connected_components(gv) == Cardinality(connected_components(gv))

\* Lines 322-329 and 338-345: a record of the visualisation data.
StepData(step, node, gv) ==
    [ step            |-> step,
      node_removed    |-> node,
      remaining_nodes |-> gv.order,
      remaining_edges |-> gv.edges,
      largest_cc_size |-> LargestCCAfter(gv),
      num_components  |-> number_connected_components(gv) ]

\* Lines 332-345: the loop of _generate_step_by_step_data.
RECURSIVE StepByStepFrom(_, _, _, _)
StepByStepFrom(gv, sol, idx, data) ==
    IF idx = Len(sol)
    THEN [ g |-> gv, step_data |-> data ]
    ELSE IF InGraph(sol[idx + 1], gv)
         THEN LET gn == remove_node(gv, sol[idx + 1])
              IN  StepByStepFrom(gn, sol, idx + 1,
                                 Append(data, StepData(idx + 1, sol[idx + 1], gn)))
         ELSE StepByStepFrom(gv, sol, idx + 1, data)

\* _generate_step_by_step_data, lines 313-347. "None" stands for None.
generate_step_by_step_data(h, r, sol) ==
    LET Looped(c, run) ==
            [ heap |-> [ c.heap EXCEPT ![c.ref] = run.g ], step_data |-> run.step_data ]
        Copied(c) ==
            Looped(c, StepByStepFrom(c.heap[c.ref], sol, 0,
                                     << StepData(0, "None", c.heap[c.ref]) >>))
    IN  Copied(GraphCopy(h, r))

\* Lines 204-206: (baseline - ours) / baseline on fractions. A zero
\* baseline gives a zero denominator: numpy's float division returns inf or
\* nan there and does not raise.
Improvement(baseline, ours) ==
    Frac(baseline[1] * ours[2] - ours[1] * baseline[2], ours[2] * baseline[1])

\* compare_with_baselines, lines 179-209, for the outcome shuffled of the
\* shuffle in _random_attack. The first _calculate_metrics that raises ends
\* the call.
compare_with_baselines(h, r, sol, shuffled) ==
    LET Raised(m) == [ heap |-> m.heap, error |-> m.error, result |-> NoResult ]
        Ours(mhda, mhba, mrnd, ours) ==                        \* lines 199-209
            IF ours.error # "none" THEN Raised(ours)
            ELSE [ heap   |-> ours.heap,
                   error  |-> "none",
                   result |->
                     [ returned     |-> TRUE,
                       our_solution |-> ours.result,
                       baselines    |-> [ HDA |-> mhda.result, HBA |-> mhba.result,
                                          Random |-> mrnd.result ],
                       comparison   |->
                         [ robustness_improvement |->
                             [ vs_HDA    |-> Improvement(mhda.result.robustness,
                                                         ours.result.robustness),
                               vs_HBA    |-> Improvement(mhba.result.robustness,
                                                         ours.result.robustness),
                               vs_Random |-> Improvement(mrnd.result.robustness,
                                                         ours.result.robustness) ] ] ] ]
        RandomScored(mhda, mhba, mrnd) ==                      \* line 197
            IF mrnd.error # "none" THEN Raised(mrnd)
            ELSE Ours(mhda, mhba, mrnd, calculate_metrics(mrnd.heap, r, sol))
        RandomDone(mhda, mhba, rnd) ==                         \* line 194
            RandomScored(mhda, mhba, calculate_metrics(rnd.heap, r, rnd.solution))
        HbaScored(mhda, mhba) ==                               \* line 193
            IF mhba.error # "none" THEN Raised(mhba)
            ELSE RandomDone(mhda, mhba, random_attack(mhba.heap, r, Len(sol), shuffled))
        HbaDone(mhda, hba) ==                                  \* line 190
            HbaScored(mhda, calculate_metrics(hba.heap, r, hba.solution))
        HdaScored(mhda) ==                                     \* line 189
            IF mhda.error # "none" THEN Raised(mhda)
            ELSE HbaDone(mhda, high_betweenness_attack(mhda.heap, r))
        HdaDone(hda) ==                                        \* line 186
            HdaScored(calculate_metrics(hda.heap, r, hda.solution))
    IN  HdaDone(high_degree_attack(h, r))                      \* line 185

-----------------------------------------------------------------------------
\* Canonical relabelling, DismantlingEngine._preprocess_graph and
\* GraphProcessor.preprocess_for_model. A node id is an int or a str. The
\* ints are the naturals; a str is written as a negative number, in such a
\* way that the lexicographic order of the strs is the order of their
\* numbers (-3, -2, -1 for 'a', 'b', 'c'). Python orders ints among
\* themselves and strs among themselves, and sorted() of a list holding
\* both raises TypeError.

\* isinstance(node, int)
IsInt(node) == node >= 0

\* all(isinstance(node, int) for node in g.nodes())
AllInt(gv) == \A v \in Nodes(gv) : IsInt(v)

\* sorted(g.nodes()) is defined: the ids are all ints or all strs.
Sortable(gv) == \A u, v \in Nodes(gv) : IsInt(u) = IsInt(v)

\* sorted(..., reverse=True): the ids from the largest down.
RECURSIVE SortedSeq_Descending(_)
SortedSeq_Descending(S) ==
    IF S = {} THEN << >>
    ELSE LET top == CHOOSE v \in S : \A w \in S : w <= v
         IN  << top >> \o SortedSeq_Descending(S \ { top })

RECURSIVE SortedSeq(_)
SortedSeq(S) ==
    IF S = {} THEN << >> ELSE << Min(S) >> \o SortedSeq(S \ { Min(S) })

\* Line 88: g.remove_edges_from(nx.selfloop_edges(g)), in place.
RemoveSelfLoops(gv) ==
    [ gv EXCEPT !.edges = { e \in gv.edges : Cardinality(e) # 1 } ]

\* nx.relabel_nodes(g, mapping) (copy=True): the content of the new graph,
\* its nodes in the order of g's nodes.
relabel_nodes(gv, mapping) ==
    [ order |-> [ k \in DOMAIN gv.order |-> mapping[gv.order[k]] ],
      edges |-> { { mapping[u] : u \in e } : e \in gv.edges } ]

\* EnumerateMapping numbering from 1 (enumerate(nodes, 1)).
EnumerateMapping_FromOne(nodes) ==
    [ v \in Range(nodes) |-> CHOOSE k \in DOMAIN nodes : nodes[k] = v ]

\* The mapping {node: i for i, node in enumerate(nodes)} of a list nodes.
EnumerateMapping(nodes) ==
    [ v \in Range(nodes) |-> (CHOOSE k \in DOMAIN nodes : nodes[k] = v) - 1 ]

\* preprocess_graph with line 92 enumerating g.nodes() as it stands instead
\* of sorted(g.nodes()).
preprocess_graph_Unsorted(h, r) ==
    LET Relabelled(c, h1, nodes) ==
            [ heap  |-> Append(h1, relabel_nodes(h1[c.ref], EnumerateMapping(nodes))),
              ref   |-> Len(h1) + 1,
              error |-> "none" ]
        Stripped(c, h1) ==
            IF ~ AllInt(h1[c.ref])
            THEN Relabelled(c, h1, h1[c.ref].order)
            ELSE IF SortedSeq(Nodes(h1[c.ref]))
                      # [ k \in DOMAIN h1[c.ref].order |-> k - 1 ]
            THEN Relabelled(c, h1, SortedSeq(Nodes(h1[c.ref])))
            ELSE [ heap |-> h1, ref |-> c.ref, error |-> "none" ]
        Copied(c) ==
            Stripped(c, [ c.heap EXCEPT ![c.ref] = RemoveSelfLoops(@) ])
    IN  Copied(GraphCopy(h, r))

\* Lines 81-100: the heap left and the reference of the graph returned, or
\* the error raised.
preprocess_graph(h, r) ==
    LET Relabelled(c, h1, nodes) ==                            \* lines 92-93, 97-98
            [ heap  |-> Append(h1, relabel_nodes(h1[c.ref], EnumerateMapping(nodes))),
              ref   |-> Len(h1) + 1,
              error |-> "none" ]
        Stripped(c, h1) ==
            IF ~ AllInt(h1[c.ref])                             \* line 91
            THEN IF ~ Sortable(h1[c.ref])                      \* line 92
                 THEN [ heap |-> h1, ref |-> c.ref, error |-> "TypeError" ]
                 ELSE Relabelled(c, h1, SortedSeq(Nodes(h1[c.ref])))
            ELSE IF SortedSeq(Nodes(h1[c.ref]))                \* lines 95-96
                      # [ k \in DOMAIN h1[c.ref].order |-> k - 1 ]
            THEN Relabelled(c, h1, SortedSeq(Nodes(h1[c.ref])))
            ELSE [ heap |-> h1, ref |-> c.ref, error |-> "none" ]
        Copied(c) ==                                           \* line 88
            Stripped(c, [ c.heap EXCEPT ![c.ref] = RemoveSelfLoops(@) ])
    IN  Copied(GraphCopy(h, r))                                \* line 85

\* GraphProcessor.preprocess_for_model, lines 306-324: ids that are not all
\* ints are numbered in the iteration order of the graph; the ints are then
\* renumbered in sorted order unless they are 0..n-1 already.
preprocess_for_model(h, r) ==
    LET Numbered(h2, ref2) ==                                  \* lines 319-322
            IF SortedSeq(Nodes(h2[ref2])) # [ k \in DOMAIN h2[ref2].order |-> k - 1 ]
            THEN [ heap  |-> Append(h2, relabel_nodes(h2[ref2],
                                      EnumerateMapping(SortedSeq(Nodes(h2[ref2]))))),
                   ref   |-> Len(h2) + 1,
                   error |-> "none" ]
            ELSE [ heap |-> h2, ref |-> ref2, error |-> "none" ]
        Stripped(c, h1) ==                                     \* lines 314-316
            IF ~ AllInt(h1[c.ref])
            THEN Numbered(Append(h1, relabel_nodes(h1[c.ref],
                                        EnumerateMapping(h1[c.ref].order))),
                          Len(h1) + 1)
            ELSE Numbered(h1, c.ref)
        Copied(c) ==                                           \* line 311
            Stripped(c, [ c.heap EXCEPT ![c.ref] = RemoveSelfLoops(@) ])
    IN  Copied(GraphCopy(h, r))                                \* line 310

-----------------------------------------------------------------------------
\* The oracles. model_configs of the ModelManager registers the names of
\* Registered, in this order. An oracle assignment orc gives, for each of
\* them, how the external model behaves during a call:
\*   kind    "unavailable" (load_model raises), "raises" (EvaluateRealData
\*           raises) or "answers";
\*   answer  the removal sequence EvaluateRealData returns;
\*   damage  whether EvaluateRealData removes a node from the graph object
\*           it is handed;
\*   elapsed the wall-clock time measured around the run.

Registered == << "m1", "m2" >>

\* ModelManager.get_model and load_model: the name of the model handed
\* back, or the error raised. "None" stands for None.
get_model(orc, model_name) ==
    LET name == IF model_name \in { "None", "default" }
                THEN (IF Registered = << >> THEN "None" ELSE Registered[1])
                ELSE model_name
    IN  IF model_name \in { "None", "default" } /\ Registered = << >>
        THEN [ error |-> "ValueError" ]
        ELSE IF name \notin Range(Registered)
        THEN [ error |-> "ValueError" ]
        ELSE IF orc[name].kind = "unavailable"
        THEN [ error |-> "OracleUnavailable" ]
        ELSE [ error |-> "none", model |-> name ]

\* model.EvaluateRealData(test_graph=graph, ...) on the object r of heap h.
EvaluateRealData(h, r, o) ==
    IF o.damage /\ number_of_nodes(h[r]) > 0
    THEN [ h EXCEPT ![r] = remove_node(@, @.order[1]) ]
    ELSE h

\* dismantle calling EvaluateRealData a second time when the first call
\* raised.
dismantle_RetryOnce(h, r, orc, model_name, max_iterations) ==
    LET got == << [ op |-> "get_model", name |-> model_name ] >>   \* line 40
        ran == got \o << [ op   |-> "EvaluateRealData",           \* line 113
                           name |-> get_model(orc, model_name).model ] >>
        Scored(o, c, cm) ==                                    \* lines 58-79
            IF cm.error # "none"
            THEN [ heap |-> cm.heap, error |-> cm.error, result |-> NoResult,
                   calls |-> ran ]
            ELSE [ heap   |-> cm.heap,
                   error  |-> "none",
                   calls  |-> ran,
                   result |->
                     [ returned       |-> TRUE,
                       solution       |-> o.answer,
                       metrics        |-> cm.result,
                       execution_time |-> o.elapsed,
                       iterations     |-> Len(o.answer),
                       original_graph |->
                         [ nodes |-> number_of_nodes(cm.heap[c.ref]),
                           edges |-> number_of_edges(cm.heap[c.ref]) ],
                       model_used     |-> IF model_name = "None" THEN "default"
                                          ELSE model_name ] ]
        Evaluated(o, c, h3) ==                                 \* line 56
            IF o.kind = "raises"
            THEN [ heap |-> EvaluateRealData(h3, c.ref, o),
                   error |-> "OracleExecutionError", result |-> NoResult,
                   calls |-> ran \o << ran[2] >> ]
            ELSE Scored(o, c, calculate_metrics(h3, c.ref, o.answer))
        Preprocessed(o, c, p) ==                               \* lines 51-53, 113
            IF p.error # "none"
            THEN [ heap |-> p.heap, error |-> p.error, result |-> NoResult,
                   calls |-> got ]
            ELSE Evaluated(o, c, EvaluateRealData(p.heap, p.ref, o))
        Copied(o, c) ==                                        \* line 44
            Preprocessed(o, c, preprocess_graph(c.heap, r))
        Resolved(m) ==                                         \* line 43
            IF m.error # "none"
            THEN [ heap |-> h, error |-> m.error, result |-> NoResult,
                   calls |-> got ]
            ELSE Copied(orc[m.model], GraphCopy(h, r))
    IN  Resolved(get_model(orc, model_name))                   \* line 40

\* DismantlingEngine.dismantle, lines 19-79 (with _execute_dismantling,
\* lines 102-124). max_iterations is handed to _execute_dismantling, which
\* does not read it. calls lists the calls made on the model manager and on
\* the model, in the order they are made.
dismantle(h, r, orc, model_name, max_iterations) ==
    LET got == << [ op |-> "get_model", name |-> model_name ] >>   \* line 40
        ran == got \o << [ op   |-> "EvaluateRealData",           \* line 113
                           name |-> get_model(orc, model_name).model ] >>
        Scored(o, c, cm) ==                                    \* lines 58-79
            IF cm.error # "none"
            THEN [ heap |-> cm.heap, error |-> cm.error, result |-> NoResult,
                   calls |-> ran ]
            ELSE [ heap   |-> cm.heap,
                   error  |-> "none",
                   calls  |-> ran,
                   result |->
                     [ returned       |-> TRUE,
                       solution       |-> o.answer,
                       metrics        |-> cm.result,
                       execution_time |-> o.elapsed,
                       iterations     |-> Len(o.answer),
                       original_graph |->
                         [ nodes |-> number_of_nodes(cm.heap[c.ref]),
                           edges |-> number_of_edges(cm.heap[c.ref]) ],
                       model_used     |-> IF model_name = "None" THEN "default"
                                          ELSE model_name ] ]
        Evaluated(o, c, h3) ==                                 \* line 56
            IF o.kind = "raises"
            THEN [ heap |-> h3, error |-> "OracleExecutionError", result |-> NoResult,
                   calls |-> ran ]
            ELSE Scored(o, c, calculate_metrics(h3, c.ref, o.answer))
        Preprocessed(o, c, p) ==                               \* lines 51-53, 113
            IF p.error # "none"
            THEN [ heap |-> p.heap, error |-> p.error, result |-> NoResult,
                   calls |-> got ]
            ELSE Evaluated(o, c, EvaluateRealData(p.heap, p.ref, o))
        Copied(o, c) ==                                        \* line 44
            Preprocessed(o, c, preprocess_graph(c.heap, r))
        Resolved(m) ==                                         \* line 43
            IF m.error # "none"
            THEN [ heap |-> h, error |-> m.error, result |-> NoResult,
                   calls |-> got ]
            ELSE Copied(orc[m.model], GraphCopy(h, r))
    IN  Resolved(get_model(orc, model_name))                   \* line 40

-----------------------------------------------------------------------------
\* DismantlingEngine.dismantle_multi_model. A Python dict is the record
\* [keys |-> its keys in insertion order, val |-> the value of each key].

EmptyDict == [ keys |-> << >>, val |-> << >> ]

DictSet(d, k, v) ==
    [ keys |-> IF k \in Range(d.keys) THEN d.keys ELSE Append(d.keys, k),
      val  |-> [ x \in Range(d.keys) \cup {k} |-> IF x = k THEN v ELSE d.val[x] ] ]

\* Lines 260-264: a config without 'id' raises ValueError; a config without
\* 'name' gets its id as name.
RECURSIVE ValidateConfigs(_, _)
ValidateConfigs(cfgs, idx) ==
    IF idx > Len(cfgs)
    THEN [ error |-> "none", model_configs |-> cfgs ]
    ELSE IF "id" \notin DOMAIN cfgs[idx]
    THEN [ error |-> "ValueError", model_configs |-> cfgs ]
    ELSE IF "name" \notin DOMAIN cfgs[idx]
    THEN ValidateConfigs([ cfgs EXCEPT ![idx] = [ name |-> @.id ] @@ @ ],
                         idx + 1)
    ELSE ValidateConfigs(cfgs, idx + 1)

\* Lines 296-301.
FailureEntry(err, model_id, model_name) ==
    [ success |-> FALSE, error |-> err, model_id |-> model_id, model_name |-> model_name ]

\* Lines 269-301: the runs of the configs from idx on.
RECURSIVE RunConfigs(_, _, _, _, _, _)
RunConfigs(h, r, orc, cfgs, idx, results) ==
    IF idx > Len(cfgs)
    THEN [ heap |-> h, results |-> results, calls |-> << >> ]
    ELSE LET model_id   == cfgs[idx].id
             model_name == cfgs[idx].name
             max_iterations ==                                 \* line 273
                 IF "max_iterations" \in DOMAIN cfgs[idx]
                 THEN cfgs[idx].max_iterations ELSE 1000
             After(d, rest) == [ rest EXCEPT !.calls = d.calls \o @ ]
             Stepped(d, sbs) ==                                \* lines 288-290
                 After(d, RunConfigs(sbs.heap, r, orc, cfgs, idx + 1,
                            DictSet(results, model_id,
                                    d.result @@ [ step_by_step |-> sbs.step_data ])))
             Ran(d) ==
                 IF d.error = "none"
                 THEN Stepped(d, generate_step_by_step_data(d.heap, r,
                                                            d.result.solution))
                 ELSE After(d, RunConfigs(d.heap, r, orc, cfgs, idx + 1, \* lines 294-301
                                 DictSet(results, model_id,
                                         FailureEntry(d.error, model_id, model_name))))
         IN  Ran(dismantle(h, r, orc, model_name, max_iterations))  \* lines 279-284

\* v.get('success', True)
Succeeded(v) == IF "success" \in DOMAIN v THEN v.success ELSE TRUE

\* Line 304: the successful entries, in the order of results.
SuccessfulResults(results) ==
    [ keys |-> SelectSeq(results.keys, LAMBDA k : Succeeded(results.val[k])),
      val  |-> [ k \in { x \in Range(results.keys) : Succeeded(results.val[x]) } |->
                   results.val[k] ] ]

FracLT(a, b) == a[1] * b[2] < b[1] * a[2]

\* float('inf'): above every fraction with a positive denominator.
Inf == Frac(1, 0)

\* CompareStep with the three comparisons turned round.
CompareStep_HigherWins(best, model_id, res) ==
    LET robustness     == res.metrics.robustness
        removal_ratio  == res.metrics.removal_ratio
        execution_time == res.execution_time
        r_wins == FracLT(best.robustness_score, robustness)
        e_wins == FracLT(best.removal_ratio, removal_ratio)
        t_wins == FracLT(best.time, Frac(execution_time, 1))
    IN  [ robustness_score        |-> IF r_wins THEN robustness ELSE best.robustness_score,
          best_robustness         |-> IF r_wins THEN model_id ELSE best.best_robustness,
          removal_ratio           |-> IF e_wins THEN removal_ratio ELSE best.removal_ratio,
          best_removal_efficiency |-> IF e_wins THEN model_id ELSE best.best_removal_efficiency,
          time                    |-> IF t_wins THEN Frac(execution_time, 1) ELSE best.time,
          best_execution_time     |-> IF t_wins THEN model_id ELSE best.best_execution_time,
          summary                 |->
            DictSet(best.summary, model_id,
                    [ robustness       |-> robustness,
                      removal_ratio    |-> removal_ratio,
                      execution_time   |-> execution_time,
                      nodes_removed    |-> res.metrics.nodes_removed,
                      final_largest_cc |-> res.metrics.final_largest_cc ]) ]

\* Lines 364-395: one iteration of the loop of _compare_model_results; best
\* is the state of the search.
CompareStep(best, model_id, res) ==
    LET robustness     == res.metrics.robustness
        removal_ratio  == res.metrics.removal_ratio
        execution_time == res.execution_time
        r_wins == FracLT(robustness, best.robustness_score)
        e_wins == FracLT(removal_ratio, best.removal_ratio)
        t_wins == FracLT(Frac(execution_time, 1), best.time)
    IN  [ robustness_score        |-> IF r_wins THEN robustness ELSE best.robustness_score,
          best_robustness         |-> IF r_wins THEN model_id ELSE best.best_robustness,
          removal_ratio           |-> IF e_wins THEN removal_ratio ELSE best.removal_ratio,
          best_removal_efficiency |-> IF e_wins THEN model_id ELSE best.best_removal_efficiency,
          time                    |-> IF t_wins THEN Frac(execution_time, 1) ELSE best.time,
          best_execution_time     |-> IF t_wins THEN model_id ELSE best.best_execution_time,
          summary                 |->
            DictSet(best.summary, model_id,
                    [ robustness       |-> robustness,
                      removal_ratio    |-> removal_ratio,
                      execution_time   |-> execution_time,
                      nodes_removed    |-> res.metrics.nodes_removed,
                      final_largest_cc |-> res.metrics.final_largest_cc ]) ]

RECURSIVE CompareFrom(_, _, _)
CompareFrom(results, idx, best) ==
    IF idx > Len(results.keys)
    THEN best
    ELSE CompareFrom(results, idx + 1,
                     IF Succeeded(results.val[results.keys[idx]])
                     THEN CompareStep(best, results.keys[idx], results.val[results.keys[idx]])
                     ELSE best)

\* _compare_model_results, lines 349-397.
compare_model_results(results) ==
    LET best == CompareFrom(results, 1,
                    [ robustness_score |-> Inf, best_robustness |-> "None",
                      removal_ratio |-> Inf, best_removal_efficiency |-> "None",
                      time |-> Inf, best_execution_time |-> "None",
                      summary |-> EmptyDict ])
    IN  [ best_robustness         |-> best.best_robustness,
          best_removal_efficiency |-> best.best_removal_efficiency,
          best_execution_time     |-> best.best_execution_time,
          summary                 |-> best.summary ]

\* dismantle_multi_model, lines 245-311.
dismantle_multi_model(h, r, orc, model_configs) ==
    LET Compared(runs, successful_results) ==                  \* lines 305-311
            [ heap   |-> runs.heap,
              error  |-> "none",
              calls  |-> runs.calls,
              result |->
                [ returned |-> TRUE,
                  results  |-> IF Len(successful_results.keys) > 1
                               THEN DictSet(runs.results, "comparison",
                                            compare_model_results(successful_results))
                               ELSE runs.results ] ]
        Executed(runs) == Compared(runs, SuccessfulResults(runs.results))  \* line 304
        Validated(v) ==                                        \* lines 269-301
            IF v.error # "none"
            THEN [ heap |-> h, error |-> v.error, result |-> NoResult,
                   calls |-> << >> ]
            ELSE Executed(RunConfigs(h, r, orc, v.model_configs, 1, EmptyDict))
    IN  Validated(ValidateConfigs(model_configs, 1))           \* lines 260-264

-----------------------------------------------------------------------------
\* The entry points of the engine, each taken as one whole call on the
\* caller's graph.

\* A graph with a self-loop, and one whose ids are not 0..n-1 and were not
\* inserted in increasing order.
LoopGraph == [ order |-> << 0, 1 >>, edges |-> { {0}, {0, 1} } ]
ShiftedGraph == [ order |-> << 2, 1 >>, edges |-> { {1, 2}, {2} } ]

\* A path, on which the order of two removals changes the score.
PathGraph == [ order |-> << 0, 1, 2 >>, edges |-> { {0, 1}, {1, 2} } ]

\* An edge whose higher end was inserted first (nx.Graph([(1, 0)])), and the
\* cycle 0-1, 1-2, 2-3, 3-0.
ReversedGraph == [ order |-> << 1, 0 >>, edges |-> { {0, 1} } ]
CycleGraph == [ order |-> << 0, 1, 2, 3 >>, edges |-> { {0, 1}, {1, 2}, {2, 3}, {0, 3} } ]

\* One edge and, inserted before its ends, a node without edges.
IsolatedFirstGraph == [ order |-> << 0, 1, 2 >>, edges |-> { {1, 2} } ]

CallGraphs ==
    SimpleGraphs(CallMaxNodes) \cup
        { LoopGraph, ShiftedGraph, ReversedGraph, PathGraph, IsolatedFirstGraph,
          CycleGraph, TestGraph }

Reverse(s) == [ k \in DOMAIN s |-> s[Len(s) + 1 - k] ]

\* The oracles of a run: each model is unavailable, raises or answers; m1
\* answers sol and m2 answers sol reversed; they take 1 and 2 time units; if
\* dmg they remove a node from the graph they are handed.
CallOracles(sol) ==
    { [ m \in { "m1", "m2" } |->
          [ kind    |-> kinds[m],
            answer  |-> IF m = "m1" THEN sol ELSE Reverse(sol),
            damage  |-> dmg,
            elapsed |-> IF m = "m1" THEN 1 ELSE 2 ] ] :
      kinds \in [ { "m1", "m2" } -> { "unavailable", "raises", "answers" } ],
      dmg \in BOOLEAN }

\* The call name(args) ends with out: the heap it leaves and the value it
\* returns or the exception it raises. given is the value the caller's graph
\* had when the call was made, calls the calls it made on the model manager
\* and the models.
Returns(out, name, args) ==
    /\ heap' = out.heap
    /\ error' = out.error
    /\ IF out.error = "none"
       THEN /\ pc' = "returned"
            /\ result' = [ op |-> name, args |-> args, given |-> heap[graph],
                            value |-> out.result,
                            calls |-> IF "calls" \in DOMAIN out THEN out.calls
                                      ELSE << >> ]
       ELSE /\ pc' = "raised"
            /\ result' = [ op |-> name, args |-> args, given |-> heap[graph],
                            value |-> NoResult,
                            calls |-> IF "calls" \in DOMAIN out THEN out.calls
                                      ELSE << >> ]
    /\ UNCHANGED << graph, solution, i, g, original_largest_cc,
                    removal_sequence, largest_cc_sizes >>
    /\ UNCHANGED << managerVars, deadline >>

CallEvaluateSolution ==
    /\ pc = "call"
    /\ Returns(calculate_metrics(heap, graph, solution), "evaluate_solution", << >>)

CallHighDegreeAttack ==
    /\ pc = "call"
    /\ LET out == high_degree_attack(heap, graph)
       IN  Returns([ heap |-> out.heap, error |-> "none", result |-> out.solution ],
                   "_high_degree_attack", << >>)

CallHighBetweennessAttack ==
    /\ pc = "call"
    /\ LET out == high_betweenness_attack(heap, graph)
       IN  Returns([ heap |-> out.heap, error |-> "none", result |-> out.solution ],
                   "_high_betweenness_attack", << >>)

CallRandomAttack ==
    /\ pc = "call"
    /\ \E shuffled \in Shuffles(heap[graph].order) :
          LET out == random_attack(heap, graph, Len(solution), shuffled)
          IN  Returns([ heap |-> out.heap, error |-> "none", result |-> out.solution ],
                      "_random_attack", << shuffled >>)

CallGenerateStepByStepData ==
    /\ pc = "call"
    /\ LET out == generate_step_by_step_data(heap, graph, solution)
       IN  Returns([ heap |-> out.heap, error |-> "none", result |-> out.step_data ],
                   "_generate_step_by_step_data", << >>)

CallCompareWithBaselines ==
    /\ pc = "call"
    /\ \E shuffled \in Shuffles(heap[graph].order) :
          Returns(compare_with_baselines(heap, graph, solution, shuffled),
                  "compare_with_baselines", << shuffled >>)

\* The model names a caller may pass: none, 'default', a registered name or
\* a name that is not registered.
ModelNameArgs == { "None", "default", "m1", "m2", "m3" }

\* The caps a caller may pass: a small one and the default of line 23.
MaxIterationsArgs == { 1, 1000 }

CallDismantle ==
    /\ pc = "call"
    /\ \E model_name \in ModelNameArgs, orc \in CallOracles(solution),
          max_iterations \in MaxIterationsArgs :
          Returns(dismantle(heap, graph, orc, model_name, max_iterations),
                  "dismantle", << model_name, orc, max_iterations >>)

\* The config lists a caller may pass: no config, one or two configs with
\* distinct or equal ids, a config without 'name', one without 'id', one
\* whose id is empty, one with a cap, one whose id is 'comparison', and
\* three configs the first of which names a model that is not registered.
ConfigListArgs ==
    { << >>,
      << [ id |-> "a", name |-> "m1" ] >>,
      << [ name |-> "m1" ] >>,
      << [ id |-> "a", name |-> "m1" ], [ id |-> "b", name |-> "m2" ] >>,
      << [ id |-> "b", name |-> "m2" ], [ id |-> "a", name |-> "m1" ] >>,
      << [ id |-> "a", name |-> "m1" ], [ id |-> "m2" ] >>,
      << [ id |-> "a", name |-> "m1" ], [ name |-> "m2" ] >>,
      << [ id |-> "a", name |-> "m1" ], [ id |-> "a", name |-> "m2" ] >>,
      << [ id |-> "comparison", name |-> "m1" ], [ id |-> "b", name |-> "m2" ] >>,
      << [ id |-> "", name |-> "m1" ], [ id |-> "b", name |-> "m2" ] >>,
      << [ id |-> "a", name |-> "m1", max_iterations |-> 1 ] >>,
      << [ id |-> "comparison", name |-> "m3" ], [ id |-> "a", name |-> "m1" ],
         [ id |-> "b", name |-> "m2" ] >> }

CallDismantleMultiModel ==
    /\ pc = "call"
    /\ \E model_configs \in ConfigListArgs, orc \in CallOracles(solution) :
          Returns(dismantle_multi_model(heap, graph, orc, model_configs),
                  "dismantle_multi_model", << model_configs, orc >>)

InitCalls ==
    /\ heap \in { << gv >> : gv \in CallGraphs }
    /\ graph = 1
    /\ solution \in SeqsUpTo(0..CallMaxNodes, CallMaxLen)
    /\ pc = "call"
    /\ i = 0
    /\ g = 0
    /\ original_largest_cc = 0
    /\ removal_sequence = << >>
    /\ largest_cc_sizes = << >>
    /\ result = NoResult
    /\ error = "none"
    /\ ManagerInit
    /\ deadline = FALSE

NextCalls ==
    \/ CallEvaluateSolution
    \/ CallHighDegreeAttack
    \/ CallHighBetweennessAttack
    \/ CallRandomAttack
    \/ CallGenerateStepByStepData
    \/ CallCompareWithBaselines
    \/ CallDismantle
    \/ CallDismantleMultiModel

SpecCalls == InitCalls /\ [][NextCalls]_vars

-----------------------------------------------------------------------------
\* Reference definitions used to state the properties. They are given
\* directly on node and edge sets, not through the engine's operators.

\* C is a connected set of nodes under the edges E.
IsConnectedSet(C, E) ==
    /\ C # {}
    /\ \A A \in SUBSET C :
          (A # {} /\ A # C) => \E u \in A, v \in C \ A : {u, v} \in E

\* The size of the largest connected component of (V, E), 0 without nodes.
LargestComponent(V, E) ==
    Max({0} \cup { Cardinality(C) : C \in { D \in SUBSET V : IsConnectedSet(D, E) } })

\* The caller's graph and what is left of it once the nodes R are removed.
GraphNodes == Nodes(heap[graph])
GraphEdges == heap[graph].edges
NodesWithout(R) == GraphNodes \ R
EdgesWithout(R) == { e \in GraphEdges : e \cap R = {} }

\* The nodes removed by the first k StepRecords.
RemovedBy(records, k) == { records[j].node_removed : j \in 1..k }

\* The entries of solution iterated so far.
Iterated == { solution[k] : k \in 1..i }

IsFullOrder ==
    /\ Len(solution) = Cardinality(GraphNodes)
    /\ Range(solution) = GraphNodes

-----------------------------------------------------------------------------
\* The replay of the whole sequence, computed at once, is what the loop
\* builds entry by entry.
ReplayAgrees ==
    pc = "done" =>
        /\ calculate_metrics(heap, graph, solution).error = "none"
        /\ calculate_metrics(heap, graph, solution).result = result

\* C1: an entry of the sequence that is not in the working graph when its
\* turn comes (never present, or removed earlier) is skipped: no StepRecord
\* is appended and the working graph keeps its nodes and edges.
C1_AbsentIdIsSkipped ==
    [][ ( /\ pc = "loop"
          /\ i < Len(solution)
          /\ solution[i + 1] \notin Nodes(heap[g]) )
        => ( /\ removal_sequence' = removal_sequence
             /\ largest_cc_sizes' = largest_cc_sizes
             /\ heap'[g'] = heap[g]
             /\ i' = i + 1 ) ]_vars

\* A repeated id has been skipped after its first removal, and an id that
\* was never a node has been skipped too.
C1_Witness ==
    /\ pc = "loop"
    /\ i = 3
    /\ solution[1] \in GraphNodes
    /\ solution[2] = solution[1]
    /\ solution[3] \notin GraphNodes
    /\ Len(removal_sequence) = 1

\* C2: the step index of every StepRecord is the number of records emitted
\* before it plus 1, so the indices of a trace are 1, 2, ..., k.
C2_StepIndicesAreConsecutive ==
    \A k \in 1..Len(removal_sequence) : removal_sequence[k].step = k

\* C3: each StepRecord reports the graph left after its node and the edges
\* at that node are gone: the node count, the edge count, the exact size of
\* the largest component and that size over the original largest size; on
\* the test graph with sequence [1] the trace is one step with 3 nodes,
\* 2 edges and a largest component of 3.
C3_StepRecordReportsGraphAfterRemoval ==
    /\ \A k \in 1..Len(removal_sequence) :
          LET rec == removal_sequence[k]
              R   == RemovedBy(removal_sequence, k)
              lcc == LargestComponent(NodesWithout(R), EdgesWithout(R))
          IN  /\ rec.node_removed \in GraphNodes
              /\ rec.remaining_nodes = Cardinality(NodesWithout(R))
              /\ rec.remaining_edges = Cardinality(EdgesWithout(R))
              /\ rec.largest_cc_size = lcc
              /\ rec.largest_cc_ratio[2] > 0
              /\ FracEq(rec.largest_cc_ratio,
                        Frac(lcc, LargestComponent(GraphNodes, GraphEdges)))
    /\ ( pc = "done" /\ heap[graph] = TestGraph /\ solution = << 1 >> ) =>
          /\ Len(result.removal_sequence) = 1
          /\ result.removal_sequence[1].node_removed = 1
          /\ result.removal_sequence[1].remaining_nodes = 3
          /\ result.removal_sequence[1].remaining_edges = 2
          /\ result.removal_sequence[1].largest_cc_size = 3

C3_Witness ==
    /\ pc = "done"
    /\ heap[graph] = TestGraph
    /\ solution = << 1 >>
    /\ Len(result.removal_sequence) = 1

\* C4: in the returned Metrics nodes_removed is the number of StepRecords of
\* the trace and removal_ratio is that number over the original node count.
C4_NodesRemovedCountsStepRecords ==
    pc = "done" =>
        /\ result.nodes_removed = Len(result.removal_sequence)
        /\ FracEq(result.removal_ratio,
                  Frac(Len(result.removal_sequence), Cardinality(GraphNodes)))

\* C5: the number of StepRecords and the drop of the working graph's node
\* count both equal the number of distinct ids iterated that are nodes of
\* the graph, which is at most the number of entries iterated.
C5_NoDoubleCounting ==
    pc \in { "loop", "done" } =>
        LET hit == Cardinality(Iterated \cap GraphNodes)
        IN  /\ Len(removal_sequence) = hit
            /\ Cardinality(GraphNodes) - number_of_nodes(heap[g]) = hit
            /\ hit <= i
            /\ i <= Len(solution)

\* A finished replay of a sequence with a repeated and a never-present id.
C5_Witness ==
    /\ pc = "done"
    /\ Len(solution) = 3
    /\ solution[1] = solution[2]
    /\ solution[1] \in GraphNodes
    /\ solution[3] \notin GraphNodes
    /\ Len(result.removal_sequence) = 1

\* C6: with an empty trace (empty sequence, or every id skipped) robustness
\* is exactly 1.0 and final_largest_cc is the original largest component.
C6_EmptyTraceScoresOne ==
    ( pc = "done" /\ result.removal_sequence = << >> ) =>
        /\ result.robustness = Frac(1, 1)
        /\ result.final_largest_cc = LargestComponent(GraphNodes, GraphEdges)

\* Every id of a non-empty sequence was skipped.
C6_Witness ==
    /\ pc = "done"
    /\ solution # << >>
    /\ result.removal_sequence = << >>
    /\ Cardinality(GraphNodes) > 1

\* C7: for a trace with largest-component sizes c1..ck, k > 0,
\* 2 * k * originalLargestCC * robustness = sum over j < k of (cj + cj+1).
C7_RobustnessIsNormalisedTrapezoid ==
    ( pc = "done" /\ result.removal_sequence # << >> ) =>
        LET recs == result.removal_sequence
            k    == Len(recs)
            orig == LargestComponent(GraphNodes, GraphEdges)
            area == SumSeq([ j \in 1..(k - 1) |->
                       recs[j].largest_cc_size + recs[j + 1].largest_cc_size ])
        IN  /\ result.robustness[2] > 0
            /\ 2 * k * orig * result.robustness[1] = area * result.robustness[2]

\* A trace of three steps with a non-zero area.
C7_Witness ==
    /\ pc = "done"
    /\ Len(result.removal_sequence) = 3
    /\ result.robustness[1] > 0

\* C8 as claimed: with solution an order over all nodes of the graph, no
\* prefix of it (the empty one included) scores higher than the full order.
C8_PrefixNeverScoresHigher ==
    ( pc = "done" /\ IsFullOrder ) =>
        \A k \in 0..Len(solution) :
            FracLE(calculate_metrics(heap, graph, SubSeq(solution, 1, k)).result.robustness,
                   result.robustness)

\* C8 amended: with solution an order over all nodes of the graph, the full
\* order scores at most what the empty prefix scores (1.0) and at least what
\* the prefix of length 1 scores (0).
C8_FullOrderBetweenFirstPrefixes ==
    ( pc = "done" /\ IsFullOrder ) =>
        /\ FracLE(result.robustness,
                  calculate_metrics(heap, graph, << >>).result.robustness)
        /\ FracLE(calculate_metrics(heap, graph, SubSeq(solution, 1, 1)).result.robustness,
                  result.robustness)
        /\ calculate_metrics(heap, graph, << >>).result.robustness = Frac(1, 1)
        /\ calculate_metrics(heap, graph, SubSeq(solution, 1, 1)).result.robustness[1] = 0

\* A full order over three nodes whose score is strictly between the two.
C8_Witness ==
    /\ pc = "done"
    /\ IsFullOrder
    /\ Len(solution) = 3
    /\ result.robustness[1] > 0

\* C9: scoring a graph without nodes does not fail and reports an original
\* largest component of 0, a removal ratio of 0 and a reduction of 0.
C9_EmptyGraphIsScored ==
    GraphNodes = {} =>
        /\ error = "none"
        /\ pc = "done" =>
              /\ original_largest_cc = 0
              /\ result.removal_ratio[1] = 0
              /\ result.largest_cc_reduction[1] = 0

\* C10: the graph passed to an entry point of the engine (evaluate_solution,
\* the baseline generators, the step-by-step generator,
\* compare_with_baselines, dismantle, dismantle_multi_model) has the same
\* nodes, in the same order, and the same edges after the call as before,
\* whether the call returns or raises.
C10_CallerGraphUnchanged ==
    pc \in { "returned", "raised" } => heap[graph] = result.given

\* dismantle_multi_model has returned after removing nodes from a working
\* copy of a graph with edges, an oracle having damaged the graph it was
\* handed.
C10_Witness ==
    /\ pc = "returned"
    /\ result.op = "dismantle_multi_model"
    /\ result.args[2]["m1"].damage
    /\ result.args[2]["m1"].kind = "answers"
    /\ Len(result.args[1]) = 2
    /\ GraphEdges # {}
    /\ \E r \in DOMAIN heap :
          r # graph /\ number_of_nodes(heap[r]) + 2 <= number_of_nodes(heap[graph])

-----------------------------------------------------------------------------
\* Reference definitions for the calls of dismantle and dismantle_multi_model
\* that have ended.

MultiModelEnded ==
    pc \in { "returned", "raised" } /\ result.op = "dismantle_multi_model"

GivenConfigs == result.args[1]
GivenOracles == result.args[2]

\* The name a config runs under: its 'name', or its 'id' when it has none.
ConfigName(c) == IF "name" \in DOMAIN c THEN c.name ELSE c.id

ConfigCap(c) == IF "max_iterations" \in DOMAIN c THEN c.max_iterations ELSE 1000

\* A batch the specification accepts: every config has an id, no id is empty
\* and no two configs share one.
ValidBatch(cfgs) ==
    /\ \A k \in DOMAIN cfgs : "id" \in DOMAIN cfgs[k] /\ cfgs[k].id # ""
    /\ \A j, k \in DOMAIN cfgs : j # k => cfgs[j].id # cfgs[k].id

\* The run of config c taken alone on the graph the caller passed.
RunAlone(c) ==
    dismantle(<< result.given >>, 1, GivenOracles, ConfigName(c), ConfigCap(c))

\* The entries of the returned dict.
Entries == result.value.results

\* C11: in a call of dismantle_multi_model on a valid batch, the call returns
\* and, for every config whose run raises, the returned dict holds under the
\* config's id a failure entry with that id, the config's name and the error,
\* and every config listed after it has under its id either its own failure
\* entry or the result of its own run.
C11_FailureIsIsolated ==
    (MultiModelEnded /\ ValidBatch(GivenConfigs)) =>
        /\ pc = "returned"
        /\ \A k \in DOMAIN GivenConfigs :
              RunAlone(GivenConfigs[k]).error # "none" =>
                 /\ GivenConfigs[k].id \in Range(Entries.keys)
                 /\ Entries.val[GivenConfigs[k].id] =
                       FailureEntry(RunAlone(GivenConfigs[k]).error,
                                    GivenConfigs[k].id, ConfigName(GivenConfigs[k]))
                 /\ \A j \in DOMAIN GivenConfigs :
                       j > k =>
                          /\ GivenConfigs[j].id \in Range(Entries.keys)
                          /\ LET own == RunAlone(GivenConfigs[j])
                                 got == Entries.val[GivenConfigs[j].id]
                             IN  IF own.error # "none"
                                 THEN got = FailureEntry(own.error, GivenConfigs[j].id,
                                                         ConfigName(GivenConfigs[j]))
                                 ELSE /\ "solution" \in DOMAIN got
                                      /\ got.solution = own.result.solution
                                      /\ got.metrics = own.result.metrics
                                      /\ got.model_used = ConfigName(GivenConfigs[j])

\* The ids of the configs whose run, taken alone, succeeds.
SuccessfulIds ==
    { GivenConfigs[k].id : k \in { j \in DOMAIN GivenConfigs :
                                     RunAlone(GivenConfigs[j]).error = "none" } }

\* The best-metric fields of a comparison.
BestFields(cmp) ==
    { cmp.best_robustness, cmp.best_removal_efficiency, cmp.best_execution_time }

\* C12: when dismantle_multi_model returns for a valid batch, the returned
\* dict holds a comparison whose summary has exactly the ids of the
\* successful runs as rows and whose best-metric fields name successful runs
\* (all of them do when some run succeeded).
C12_ComparisonOverSuccessfulRuns ==
    (MultiModelEnded /\ pc = "returned" /\ ValidBatch(GivenConfigs)) =>
        /\ "comparison" \in Range(Entries.keys)
        /\ "summary" \in DOMAIN Entries.val["comparison"]
        /\ Range(Entries.val["comparison"].summary.keys) = SuccessfulIds
        /\ BestFields(Entries.val["comparison"]) \subseteq
              (IF SuccessfulIds = {} THEN { "None" } ELSE SuccessfulIds)

\* The returned dict of dismantle_multi_model holds a comparison.
HasComparison ==
    /\ MultiModelEnded
    /\ pc = "returned"
    /\ "comparison" \in Range(Entries.keys)
    /\ "summary" \in DOMAIN Entries.val["comparison"]

\* The configs of the ended call whose run, taken alone, succeeds.
SuccessfulConfigs ==
    { GivenConfigs[k] : k \in { j \in DOMAIN GivenConfigs :
                                  RunAlone(GivenConfigs[j]).error = "none" } }

\* C13: in a comparison, best_robustness is the id of a successful run whose
\* robustness no successful run undercuts, best_removal_efficiency the id of
\* one whose removal ratio none undercuts, and best_execution_time the id of
\* one whose execution time none undercuts.
C13_BestFieldsAreMinima ==
    HasComparison =>
        /\ \E c \in SuccessfulConfigs :
              /\ c.id = Entries.val["comparison"].best_robustness
              /\ \A d \in SuccessfulConfigs :
                    FracLE(RunAlone(c).result.metrics.robustness,
                           RunAlone(d).result.metrics.robustness)
        /\ \E c \in SuccessfulConfigs :
              /\ c.id = Entries.val["comparison"].best_removal_efficiency
              /\ \A d \in SuccessfulConfigs :
                    FracLE(RunAlone(c).result.metrics.removal_ratio,
                           RunAlone(d).result.metrics.removal_ratio)
        /\ \E c \in SuccessfulConfigs :
              /\ c.id = Entries.val["comparison"].best_execution_time
              /\ \A d \in SuccessfulConfigs :
                    RunAlone(c).result.execution_time <= RunAlone(d).result.execution_time

\* A comparison of two successful runs in which the second run listed has
\* the strictly lower robustness and the strictly lower execution time.
C13_Witness ==
    /\ HasComparison
    /\ Len(GivenConfigs) = 2
    /\ Entries.val["comparison"].best_robustness = GivenConfigs[2].id
    /\ Entries.val["comparison"].best_execution_time = GivenConfigs[2].id
    /\ ~ FracLE(RunAlone(GivenConfigs[1]).result.metrics.robustness,
                RunAlone(GivenConfigs[2]).result.metrics.robustness)
    /\ RunAlone(GivenConfigs[2]).result.execution_time
          < RunAlone(GivenConfigs[1]).result.execution_time

\* C14: a call of dismantle_multi_model on a batch in which some config has
\* no id or an empty id, or two configs share an id, raises a configuration
\* error without having started a run (no working copy of the graph was
\* made); on any other batch it returns, and a config without 'name' has run
\* under its id.
C14_BatchIsValidatedFirst ==
    MultiModelEnded =>
        IF ValidBatch(GivenConfigs)
        THEN /\ pc = "returned"
             /\ \A k \in DOMAIN GivenConfigs :
                   "name" \notin DOMAIN GivenConfigs[k] =>
                      LET got == Entries.val[GivenConfigs[k].id]
                      IN  IF "model_used" \in DOMAIN got
                          THEN got.model_used = GivenConfigs[k].id
                          ELSE got.model_name = GivenConfigs[k].id
        ELSE /\ pc = "raised"
             /\ error = "ValueError"
             /\ heap = << result.given >>

\* The comparison output of a value returned by dismantle_multi_model: the
\* best-metric fields and the summary as a mapping from id to row.
ComparisonOf(value) ==
    IF /\ "comparison" \in Range(value.results.keys)
       /\ "summary" \in DOMAIN value.results.val["comparison"]
    THEN [ built                   |-> TRUE,
           best_robustness         |-> value.results.val["comparison"].best_robustness,
           best_removal_efficiency |->
               value.results.val["comparison"].best_removal_efficiency,
           best_execution_time     |-> value.results.val["comparison"].best_execution_time,
           summary                 |-> value.results.val["comparison"].summary.val ]
    ELSE [ built |-> FALSE ]

\* C15: the comparison output of a call of dismantle_multi_model on a valid
\* batch is the one the call yields for the same graph and the same oracle
\* behaviour with the configs listed, and so run, in any other order.
C15_ComparisonIgnoresRunOrder ==
    (MultiModelEnded /\ pc = "returned" /\ ValidBatch(GivenConfigs)) =>
        \A other \in Shuffles(GivenConfigs) :
            ComparisonOf(dismantle_multi_model(<< result.given >>, 1,
                                               GivenOracles, other).result)
               = ComparisonOf(result.value)

\* C16: when dismantle returns, neither the reported solution nor the trace
\* nor nodes_removed reflects more removals than the max_iterations the
\* caller passed.
C16_ReplayIsCapped ==
    (pc = "returned" /\ result.op = "dismantle") =>
        /\ Len(result.value.solution) <= result.args[3]
        /\ Len(result.value.metrics.removal_sequence) <= result.args[3]
        /\ result.value.metrics.nodes_removed <= result.args[3]

-----------------------------------------------------------------------------
\* The model cache, ModelManager.get_model and load_model, called by the
\* threads of the server (run_server.py runs the application with
\* threaded=True). No lock is taken anywhere in the class, so a thread can be
\* overtaken between the cache test of line 163, the construction of lines
\* 192-201 and the store of line 218. GraphDQN is taken to be importable
\* (line 160 does not raise).

Callers == 1..MaxCallers

\* The position of thread t becomes p, with the name and the instance given.
CallerAt(t, p, name, dqn) ==
    callers' = [ callers EXCEPT ![t] = [ pc |-> p, model_name |-> name, dqn |-> dqn ] ]

\* get_model, lines 229-237: None and 'default' stand for the first
\* registered name.
GetModel(t, model_name) ==
    /\ callers[t].pc = "idle"
    /\ IF model_name \in { "None", "default" }
       THEN IF Registered = << >>
            THEN CallerAt(t, "raised", model_name, 0)
            ELSE CallerAt(t, "load_model", Registered[1], 0)
       ELSE CallerAt(t, "load_model", model_name, 0)
    /\ UNCHANGED << loaded_models, constructed, engineVars, deadline >>

\* load_model, lines 163-164: the name is cached.
LoadModelCached(t) ==
    /\ callers[t].pc = "load_model"
    /\ callers[t].model_name \in DOMAIN loaded_models
    /\ CallerAt(t, "done", callers[t].model_name, loaded_models[callers[t].model_name])
    /\ UNCHANGED << loaded_models, constructed, engineVars, deadline >>

\* load_model, lines 166-167: the name is neither cached nor registered.
LoadModelUnknown(t) ==
    /\ callers[t].pc = "load_model"
    /\ callers[t].model_name \notin DOMAIN loaded_models
    /\ callers[t].model_name \notin Range(Registered)
    /\ CallerAt(t, "raised", callers[t].model_name, 0)
    /\ UNCHANGED << loaded_models, constructed, engineVars, deadline >>

\* load_model, lines 163-170: the name is registered and not cached; the
\* thread goes on to load it.
LoadModelMiss(t) ==
    /\ callers[t].pc = "load_model"
    /\ callers[t].model_name \notin DOMAIN loaded_models
    /\ callers[t].model_name \in Range(Registered)
    /\ CallerAt(t, "loading", callers[t].model_name, 0)
    /\ UNCHANGED << loaded_models, constructed, engineVars, deadline >>

\* load_model, lines 192-201: GraphDQN(...), findModel and LoadModel have
\* built a new instance.
Construct(t) ==
    /\ callers[t].pc = "loading"
    /\ Len(constructed) < MaxConstructed
    /\ constructed' = Append(constructed, callers[t].model_name)
    /\ CallerAt(t, "store", callers[t].model_name, Len(constructed) + 1)
    /\ UNCHANGED << loaded_models, engineVars, deadline >>

\* load_model, lines 223-225: the construction raised.
ConstructFails(t) ==
    /\ callers[t].pc = "loading"
    /\ CallerAt(t, "raised", callers[t].model_name, 0)
    /\ UNCHANGED << loaded_models, constructed, engineVars, deadline >>

\* load_model, lines 218-221: the instance is stored and returned.
Store(t) ==
    /\ callers[t].pc = "store"
    /\ loaded_models' =
          [ n \in DOMAIN loaded_models \cup { callers[t].model_name } |->
              IF n = callers[t].model_name THEN callers[t].dqn ELSE loaded_models[n] ]
    /\ CallerAt(t, "done", callers[t].model_name, callers[t].dqn)
    /\ UNCHANGED << constructed, engineVars, deadline >>

\* The call of thread t has ended; the thread may call again.
Finish(t) ==
    /\ callers[t].pc \in { "done", "raised" }
    /\ CallerAt(t, "idle", "None", 0)
    /\ UNCHANGED << loaded_models, constructed, engineVars, deadline >>

InitLoad ==
    /\ heap = << TestGraph >>
    /\ graph = 1
    /\ solution = << >>
    /\ pc = "idle"
    /\ i = 0
    /\ g = 0
    /\ original_largest_cc = 0
    /\ removal_sequence = << >>
    /\ largest_cc_sizes = << >>
    /\ result = NoResult
    /\ error = "none"
    /\ ManagerInit
    /\ deadline = FALSE

NextLoad ==
    \E t \in Callers :
        \/ \E model_name \in ModelNameArgs : GetModel(t, model_name)
        \/ LoadModelCached(t)
        \/ LoadModelUnknown(t)
        \/ LoadModelMiss(t)
        \/ Construct(t)
        \/ ConstructFails(t)
        \/ Store(t)
        \/ Finish(t)

SpecLoad == InitLoad /\ [][NextLoad]_vars

\* A thread is loading: it has missed the cache and not yet stored.
Loading(t) == callers[t].pc \in { "loading", "store" }

\* C17: no two threads are loading the same name at a time, no name is
\* constructed twice, and two threads whose calls for the same name have
\* returned hold the same instance.
C17_OneLoadPerName ==
    /\ \A t, u \in Callers :
          (t # u /\ Loading(t) /\ Loading(u)) =>
             callers[t].model_name # callers[u].model_name
    /\ \A j, k \in DOMAIN constructed : j # k => constructed[j] # constructed[k]
    /\ \A t, u \in Callers :
          (/\ callers[t].pc = "done"
           /\ callers[u].pc = "done"
           /\ callers[t].model_name = callers[u].model_name) =>
             callers[t].dqn = callers[u].dqn

-----------------------------------------------------------------------------
\* The replay under a deadline. _calculate_metrics (line 126) takes the graph
\* and the solution and nothing else: the caller's deadline is a fact of the
\* environment that no line of the replay reads. RaiseDeadline is the
\* deadline passing while the replay is in its loop.

RaiseDeadline ==
    /\ pc = "loop"
    /\ ~ deadline
    /\ deadline' = TRUE
    /\ UNCHANGED << engineVars, managerVars >>

InitDeadline ==
    /\ heap \in { << gv >> : gv \in CallGraphs }
    /\ graph = 1
    /\ solution \in SeqsUpTo(0..CallMaxNodes, CallMaxLen)
    /\ pc = "begin"
    /\ i = 0
    /\ g = 0
    /\ original_largest_cc = 0
    /\ removal_sequence = << >>
    /\ largest_cc_sizes = << >>
    /\ result = NoResult
    /\ error = "none"
    /\ ManagerInit
    /\ deadline = FALSE

NextDeadline ==
    \/ CalcBegin
    \/ CalcRemove
    \/ CalcSkip
    \/ CalcReturn
    \/ RaiseDeadline

SpecDeadline == InitDeadline /\ [][NextDeadline]_vars

\* C18: once the deadline has passed during the replay, no further node is
\* removed from the working graph and no further StepRecord is emitted: the
\* trace returned is the trace built when the deadline passed.
C18_ReplayStopsAtDeadline ==
    [][ deadline => ( /\ removal_sequence' = removal_sequence
                      /\ heap' = heap ) ]_vars

-----------------------------------------------------------------------------
\* Reference definitions for the baseline generators.

\* The degree of v under the edges E, a self-loop counting twice.
DegreeIn(v, E) ==
    Cardinality({ e \in E : v \in e }) + (IF {v} \in E THEN 1 ELSE 0)

\* The first k entries of s, as a set.
PrefixSet(s, k) == { s[j] : j \in 1..k }

\* A baseline generator has returned.
GeneratorReturned(name) == pc = "returned" /\ result.op = name

\* C19: every entry of the sequence _high_degree_attack returns is a node of
\* the graph left by the entries before it, has the maximum degree there,
\* and has the lowest id among the nodes of that degree.
C19_HighDegreePicksLowestIdOfMaxDegree ==
    GeneratorReturned("_high_degree_attack") =>
        \A k \in DOMAIN result.value :
            /\ result.value[k] \in NodesWithout(PrefixSet(result.value, k - 1))
            /\ \A u \in NodesWithout(PrefixSet(result.value, k - 1)) :
                  /\ DegreeIn(u, EdgesWithout(PrefixSet(result.value, k - 1)))
                        <= DegreeIn(result.value[k],
                                    EdgesWithout(PrefixSet(result.value, k - 1)))
                  /\ DegreeIn(u, EdgesWithout(PrefixSet(result.value, k - 1)))
                        = DegreeIn(result.value[k],
                                   EdgesWithout(PrefixSet(result.value, k - 1)))
                     => result.value[k] <= u

\* C20: the sequence _high_degree_attack or _high_betweenness_attack returns
\* leaves no edge once removed from the graph passed, every proper prefix of
\* it leaves an edge (so a graph without edges yields the empty sequence and
\* no node is appended once the edges are gone).
C20_GeneratorsStopWhenEdgeless ==
    (GeneratorReturned("_high_degree_attack")
       \/ GeneratorReturned("_high_betweenness_attack")) =>
        /\ EdgesWithout(Range(result.value)) = {}
        /\ \A k \in 0..(Len(result.value) - 1) :
              EdgesWithout(PrefixSet(result.value, k)) # {}
        /\ GraphEdges = {} => result.value = << >>

\* _high_betweenness_attack has returned two nodes for a graph of four,
\* leaving two nodes that were never appended.
C20_Witness ==
    /\ GeneratorReturned("_high_betweenness_attack")
    /\ Len(result.value) = 2
    /\ Cardinality(NodesWithout(Range(result.value))) = 2
    /\ Cardinality(GraphEdges) >= 4

\* C21: the sequence _high_degree_attack or _high_betweenness_attack returns
\* has at most as many entries (one per iteration) as the graph passed has
\* edges, holds only nodes of that graph, and holds none twice.
C21_GeneratorsBoundedByEdges ==
    (GeneratorReturned("_high_degree_attack")
       \/ GeneratorReturned("_high_betweenness_attack")) =>
        /\ Len(result.value) <= Cardinality(GraphEdges)
        /\ Range(result.value) \subseteq GraphNodes
        /\ \A j, k \in DOMAIN result.value : j # k => result.value[j] # result.value[k]

-----------------------------------------------------------------------------
\* Canonicalization taken alone: _preprocess_graph or preprocess_for_model
\* is called on a raw graph, and then once more on the graph it returned.

\* The ids of raw graphs: the strs 'a', 'b', 'c' and the ints 0 and 2.
CanonIds == { -3, -2, -1, 0, 2 }

\* The lists of distinct ids, by insertion order.
NodeOrders ==
    UNION { { o \in [1..n -> CanonIds] : \A j, k \in 1..n : j # k => o[j] # o[k] } :
            n \in 0..CanonMaxNodes }

\* Raw graphs: any insertion order, edges and self-loops.
RawGraphs ==
    UNION { { [ order |-> o, edges |-> E ] :
                E \in { F \in SUBSET { e \in SUBSET Range(o) : Cardinality(e) \in { 1, 2 } } :
                          Cardinality(F) <= CanonMaxEdges } } :
            o \in NodeOrders }

CallPreprocessGraph ==
    /\ pc = "call"
    /\ LET out == preprocess_graph(heap, graph)
       IN  Returns([ heap |-> out.heap, error |-> out.error, result |-> out.ref ],
                   "_preprocess_graph", << >>)

CallPreprocessForModel ==
    /\ pc = "call"
    /\ LET out == preprocess_for_model(heap, graph)
       IN  Returns([ heap |-> out.heap, error |-> out.error, result |-> out.ref ],
                   "preprocess_for_model", << >>)

\* The function that returned is called on the graph object it returned.
CanonicalizeAgain ==
    /\ pc = "returned"
    /\ LET out == IF result.op = "_preprocess_graph"
                  THEN preprocess_graph(heap, result.value)
                  ELSE preprocess_for_model(heap, result.value)
       IN  /\ heap' = out.heap
           /\ error' = out.error
           /\ pc' = IF out.error = "none" THEN "returned_again" ELSE "raised_again"
           /\ result' = [ op |-> result.op, args |-> << >>, given |-> result.given,
                          first |-> result.value, value |-> out.ref ]
    /\ UNCHANGED << graph, solution, i, g, original_largest_cc,
                    removal_sequence, largest_cc_sizes >>
    /\ UNCHANGED << managerVars, deadline >>

InitCanon ==
    /\ heap \in { << gv >> : gv \in RawGraphs }
    /\ graph = 1
    /\ solution = << >>
    /\ pc = "call"
    /\ i = 0
    /\ g = 0
    /\ original_largest_cc = 0
    /\ removal_sequence = << >>
    /\ largest_cc_sizes = << >>
    /\ result = NoResult
    /\ error = "none"
    /\ ManagerInit
    /\ deadline = FALSE

NextCanon ==
    \/ CallPreprocessGraph
    \/ CallPreprocessForModel
    \/ CanonicalizeAgain

SpecCanon == InitCanon /\ [][NextCanon]_vars

-----------------------------------------------------------------------------
\* Reference definitions for canonicalization.

CanonOps == { "_preprocess_graph", "preprocess_for_model" }

\* A first call of a canonicalization function has ended.
CanonEnded == pc \in { "returned", "raised" } /\ result.op \in CanonOps

\* The place of id v among the ids V in their sorted order, from 0.
RankIn(v, V) == Cardinality({ u \in V : u < v })

\* The edges between distinct nodes of E, renamed by their ends' places
\* among V.
RankedEdges(V, E) ==
    { { RankIn(v, V) : v \in e } : e \in { f \in E : Cardinality(f) = 2 } }

\* C22: called on a graph whose ids are all ints or all strs, either
\* function returns a graph without self-loops whose nodes are 0..n-1 and
\* whose edges are the non-loop edges of the input, every id renamed to its
\* place in the sorted order of the input ids.
C22_CanonicalIdsFollowSortedOrder ==
    (CanonEnded /\ Sortable(result.given)) =>
        /\ pc = "returned"
        /\ Nodes(heap[result.value]) = 0..(number_of_nodes(result.given) - 1)
        /\ \A e \in heap[result.value].edges : Cardinality(e) = 2
        /\ heap[result.value].edges
              = RankedEdges(Nodes(result.given), result.given.edges)

\* C23: the second call, on the graph the first call returned, returns a
\* graph with the same node ids and the same edges.
C23_CanonicalizationIsIdempotent ==
    (pc \in { "returned_again", "raised_again" } /\ result.op \in CanonOps) =>
        /\ pc = "returned_again"
        /\ Nodes(heap[result.value]) = Nodes(heap[result.first])
        /\ heap[result.value].edges = heap[result.first].edges

\* _preprocess_graph has been called twice, the first time on a graph with
\* three str ids not inserted in sorted order, a self-loop and an edge.
C23_Witness ==
    /\ pc = "returned_again"
    /\ result.op = "_preprocess_graph"
    /\ number_of_nodes(result.given) = 3
    /\ ~ AllInt(result.given)
    /\ result.given.order # SortedSeq(Nodes(result.given))
    /\ \E e \in result.given.edges : Cardinality(e) = 1
    /\ heap[result.value].edges # {}

\* What a canonicalization function makes of a graph value: the error it
\* raises, and the node ids and edges of the graph it returns.
CanonOutcome(op, gv) ==
    LET out == IF op = "_preprocess_graph"
               THEN preprocess_graph(<< gv >>, 1)
               ELSE preprocess_for_model(<< gv >>, 1)
    IN  IF out.error # "none"
        THEN [ error |-> out.error, nodes |-> {}, edges |-> {} ]
        ELSE [ error |-> "none",
               nodes |-> Nodes(out.heap[out.ref]),
               edges |-> out.heap[out.ref].edges ]

\* C24: the outcome of a canonicalization call is the outcome of either
\* function on any graph with the same nodes and edges as the one given,
\* whatever the order its nodes were inserted in.
C24_CanonicalizationUsesContentOnly ==
    CanonEnded =>
        \A op \in CanonOps : \A p \in Shuffles(result.given.order) :
            CanonOutcome(op, [ order |-> p, edges |-> result.given.edges ])
                = CanonOutcome(result.op, result.given)

\* Reference definitions for the calls an engine call makes.

\* The registered model a requested name stands for.
ResolvedName(name) ==
    IF name \in { "None", "default" } THEN Registered[1] ELSE name

\* The manager hands out a model for the requested name.
Available(orc, name) ==
    /\ ResolvedName(name) \in Range(Registered)
    /\ orc[ResolvedName(name)].kind # "unavailable"

\* The calls of one kind the ended call made, in order.
CallsOf(op) == SelectSeq(result.calls, LAMBDA c : c.op = op)

\* C25: a call of dismantle asks the manager for its model once and calls
\* EvaluateRealData once when it got one, whether or not that call raises;
\* a call of dismantle_multi_model that returns has done so once for each
\* config, in the order of the configs.
C25_EachProviderInvokedOnce ==
    /\ (pc \in { "returned", "raised" } /\ result.op = "dismantle") =>
          /\ CallsOf("get_model")
                = << [ op |-> "get_model", name |-> result.args[1] ] >>
          /\ CallsOf("EvaluateRealData")
                = IF Available(result.args[2], result.args[1])
                  THEN << [ op   |-> "EvaluateRealData",
                            name |-> ResolvedName(result.args[1]) ] >>
                  ELSE << >>
    /\ (MultiModelEnded /\ pc = "returned") =>
          LET asked == CallsOf("get_model")
              ran   == CallsOf("EvaluateRealData")
              avail == { k \in DOMAIN GivenConfigs :
                           Available(GivenOracles, ConfigName(GivenConfigs[k])) }
          IN  /\ Len(asked) = Len(GivenConfigs)
              /\ \A k \in DOMAIN GivenConfigs :
                    asked[k].name = ConfigName(GivenConfigs[k])
              /\ Len(ran) = Cardinality(avail)
              /\ \A m \in Range(Registered) :
                    Cardinality({ j \in DOMAIN ran : ran[j].name = m })
                       = Cardinality({ k \in avail :
                            ResolvedName(ConfigName(GivenConfigs[k])) = m })

\* dismantle_multi_model has returned for two configs, the model of the
\* first of which raised while the model of the second answered.
C25_Witness ==
    /\ MultiModelEnded
    /\ pc = "returned"
    /\ Len(GivenConfigs) = 2
    /\ GivenOracles[ConfigName(GivenConfigs[1])].kind = "raises"
    /\ GivenOracles[ConfigName(GivenConfigs[2])].kind = "answers"
    /\ ~ Succeeded(Entries.val[GivenConfigs[1].id])
    /\ Succeeded(Entries.val[GivenConfigs[2].id])
    /\ Len(result.calls) = 4

\* C26: the Metrics dismantle returns are those of replaying the model's
\* answer on the canonical graph, the graph the model was handed.
C26_ReplayOnTheGraphHandedToTheOracle ==
    (pc = "returned" /\ result.op = "dismantle") =>
        LET p  == preprocess_graph(<< result.given >>, 1)
            cm == calculate_metrics(p.heap, p.ref, result.value.solution)
        IN  /\ cm.error = "none"
            /\ result.value.metrics = cm.result

\* C27: the j-th StepRecord emitted reports the node count of the caller's
\* graph minus j; no record reports more edges or a larger largest
\* component than the record before it, the first none more than the
\* caller's graph has; every largest_cc_ratio lies between 0 and 1.
C27_TraceIsMonotone ==
    \A j \in DOMAIN removal_sequence :
        /\ removal_sequence[j].remaining_nodes = number_of_nodes(heap[graph]) - j
        /\ removal_sequence[j].remaining_edges
              <= (IF j = 1 THEN number_of_edges(heap[graph])
                  ELSE removal_sequence[j - 1].remaining_edges)
        /\ removal_sequence[j].largest_cc_size
              <= (IF j = 1 THEN original_largest_cc
                  ELSE removal_sequence[j - 1].largest_cc_size)
        /\ removal_sequence[j].largest_cc_size >= 0
        /\ FracLE(Frac(0, 1), removal_sequence[j].largest_cc_ratio)
        /\ FracLE(removal_sequence[j].largest_cc_ratio, Frac(1, 1))

\* A replay of three entries has ended with two StepRecords, one entry
\* having been skipped, and the largest component shrank at both removals.
C27_Witness ==
    /\ pc = "done"
    /\ Len(solution) = 3
    /\ Len(removal_sequence) = 2
    /\ removal_sequence[1].largest_cc_size < original_largest_cc
    /\ removal_sequence[2].largest_cc_size < removal_sequence[1].largest_cc_size
    /\ removal_sequence[2].remaining_edges < removal_sequence[1].remaining_edges

\* Every config has an id and no two configs share one.
DistinctIds(cfgs) ==
    /\ \A k \in DOMAIN cfgs : "id" \in DOMAIN cfgs[k]
    /\ \A j, k \in DOMAIN cfgs : j # k => cfgs[j].id # cfgs[k].id

\* C28: when dismantle_multi_model returns for configs with pairwise distinct
\* ids, the returned dict holds under each config's id the outcome of that
\* config's own run: its failure entry, or its solution and Metrics under
\* its model name.
C28_EveryConfigKeepsItsEntry ==
    (MultiModelEnded /\ pc = "returned" /\ DistinctIds(GivenConfigs)) =>
        \A k \in DOMAIN GivenConfigs :
            /\ GivenConfigs[k].id \in Range(Entries.keys)
            /\ LET own == RunAlone(GivenConfigs[k])
                   got == Entries.val[GivenConfigs[k].id]
               IN  IF own.error # "none"
                   THEN got = FailureEntry(own.error, GivenConfigs[k].id,
                                           ConfigName(GivenConfigs[k]))
                   ELSE /\ "solution" \in DOMAIN got
                        /\ got.solution = own.result.solution
                        /\ got.metrics = own.result.metrics
                        /\ got.model_used = ConfigName(GivenConfigs[k])

\* C29: when compare_with_baselines returns for a graph with at least one
\* edge, the robustness of each of the baselines HDA, HBA and Random, the
\* divisor of its robustness_improvement, is above 0.
C29_BaselineRobustnessIsPositive ==
    (/\ pc = "returned"
     /\ result.op = "compare_with_baselines"
     /\ number_of_edges(result.given) >= 1) =>
        /\ FracLT(Frac(0, 1), result.value.baselines.HDA.robustness)
        /\ FracLT(Frac(0, 1), result.value.baselines.HBA.robustness)
        /\ FracLT(Frac(0, 1), result.value.baselines.Random.robustness)

\* The StepRecords _calculate_metrics emits for the graph and sequence of
\* the ended call; it emits none when it raises.
TraceOfGiven ==
    LET cm == calculate_metrics(<< result.given >>, 1, solution)
    IN  IF cm.error = "none" THEN cm.result.removal_sequence ELSE << >>

\* C30: the list _generate_step_by_step_data returns is a record of step 0,
\* without a removed node and listing the nodes and edges of the graph,
\* followed by one record per StepRecord that _calculate_metrics emits for
\* the same graph and sequence; the record after the j-th has the step,
\* the removed node and the largest-component size of the j-th StepRecord
\* and lists as many nodes and edges as that StepRecord counts.
C30_StepByStepMatchesTrace ==
    (pc = "returned" /\ result.op = "_generate_step_by_step_data") =>
        /\ Len(result.value) = Len(TraceOfGiven) + 1
        /\ result.value[1].step = 0
        /\ result.value[1].node_removed = "None"
        /\ result.value[1].remaining_nodes = result.given.order
        /\ result.value[1].remaining_edges = result.given.edges
        /\ \A j \in DOMAIN TraceOfGiven :
              /\ result.value[j + 1].step = TraceOfGiven[j].step
              /\ result.value[j + 1].node_removed = TraceOfGiven[j].node_removed
              /\ result.value[j + 1].largest_cc_size = TraceOfGiven[j].largest_cc_size
              /\ Len(result.value[j + 1].remaining_nodes)
                    = TraceOfGiven[j].remaining_nodes
              /\ Cardinality(result.value[j + 1].remaining_edges)
                    = TraceOfGiven[j].remaining_edges

\* Step-by-step data of two removals has been returned for a sequence whose
\* first id is not a node of the graph, which has a self-loop.
C30_Witness ==
    /\ pc = "returned"
    /\ result.op = "_generate_step_by_step_data"
    /\ Len(solution) = 2
    /\ solution[1] \notin Nodes(result.given)
    /\ Len(result.value) = 2
    /\ result.value[2].step = 2
    /\ \E e \in result.given.edges : Cardinality(e) = 1

=============================================================================
